---- MODULE Spec2Model ----
(***************************************************************************)
(* Payroll model of sistema-nomina-python: the abstract Empleado and its   *)
(* four variants (EmpleadoAsalariado, EmpleadoPorHoras,                    *)
(* EmpleadoPorComision, EmpleadoTemporal).                                 *)
(*                                                                         *)
(* Representation.                                                         *)
(*  - A date is a record [year, month, day] of the proleptic Gregorian     *)
(*    calendar, as datetime.date; date.today() is the variable hoy, which  *)
(*    the environment advances one day at a time.                          *)
(*  - Money is a whole number of pesos.  A float factor of the code is the *)
(*    rational it denotes (0.04 = 4/100, 1.5 = 15/10) and x * factor is    *)
(*    por(x, num, den) = (x * num) \div den.  The input sets below are     *)
(*    chosen so that every such quotient is exact (see Exacto).            *)
(*  - porcentaje_comision is a rational [num, den] with den > 0.           *)
(***************************************************************************)
EXTENDS Integers, Sequences, FiniteSets, TLC

VARIABLES
    hoy,      \* the value date.today() returns
    emp,      \* the employee object, or SinEmpleado when none exists
    llamada,  \* the last call made on the model and how it ended
    previa,   \* the calcular_salario_neto / obtener_detalle_nomina call that
              \* came last, if no other call was made since: its result and date
    en_curso  \* the frame of an obtener_detalle_nomina call that is running

vars == <<hoy, emp, llamada, previa, en_curso>>

----------------------------------------------------------------------------
(* datetime.date *)

Fecha(y, m, d) == [year |-> y, month |-> m, day |-> d]

\* date.__lt__ / __le__ / __gt__: comparison of (year, month, day)
FechaMenor(a, b) ==
    \/ a.year < b.year
    \/ a.year = b.year /\ a.month < b.month
    \/ a.year = b.year /\ a.month = b.month /\ a.day < b.day

FechaMenorIgual(a, b) == FechaMenor(a, b) \/ a = b

FechaMayor(a, b) == FechaMenor(b, a)

\* (a.month, a.day) < (b.month, b.day), Python's tuple comparison
MesDiaMenor(a, b) ==
    \/ a.month < b.month
    \/ a.month = b.month /\ a.day < b.day

is_leap(y) == (y % 4 = 0) /\ ((y % 100 # 0) \/ (y % 400 = 0))

days_in_month(y, m) ==
    IF m = 2 THEN (IF is_leap(y) THEN 29 ELSE 28)
    ELSE IF m \in {4, 6, 9, 11} THEN 30 ELSE 31

days_before_year(y) ==
    LET p == y - 1 IN p * 365 + (p \div 4) - (p \div 100) + (p \div 400)

RECURSIVE days_before_month(_, _)
days_before_month(y, m) ==
    IF m = 1 THEN 0 ELSE days_before_month(y, m - 1) + days_in_month(y, m - 1)

\* date.toordinal(): the day number, 0001-01-01 being day 1
toordinal(f) == days_before_year(f.year) + days_before_month(f.year, f.month) + f.day

\* (a - b).days
DiasEntre(a, b) == toordinal(a) - toordinal(b)

\* the date after f
DiaSiguiente(f) ==
    IF f.day < days_in_month(f.year, f.month) THEN Fecha(f.year, f.month, f.day + 1)
    ELSE IF f.month < 12 THEN Fecha(f.year, f.month + 1, 1)
    ELSE Fecha(f.year + 1, 1, 1)

----------------------------------------------------------------------------
(* Bounds and inputs *)

\* the number of days the clock advances after FechaInicial
MaxDias == 4

FechaInicial == Fecha(2024, 2, 27)

\* hire dates: anniversaries inside the window at tenures 4->5, 5->6, 0->1,
\* 1->2, a leap-day hire, and a hire inside the window itself
FechasIngreso ==
    { Fecha(2018, 3, 1), Fecha(2019, 2, 28), Fecha(2020, 2, 29),
      Fecha(2022, 3, 1), Fecha(2023, 2, 28), Fecha(2024, 2, 28) }

FechasFin == { Fecha(2019, 2, 28), Fecha(2024, 2, 29), Fecha(2025, 12, 31) }

Ids == { "", "001" }
Nombres == { "", "Ana Ruiz" }

Salarios == { -1000, 0, 800000, 5000000 }
Tarifas == { -50, 0, 50000 }
Horas == { -10, 0, 35, 40, 45 }
SalariosBase == { -1, 0, 2000000 }
Racional(n, d) == [num |-> n, den |-> d]
Porcentajes ==
    { Racional(-1, 20), Racional(0, 1), Racional(1, 20), Racional(1, 1),
      Racional(21, 20) }
Ventas == { -1000, 0, 20000000, 20002500, 25000000 }

\* amounts passed to calcular_deducciones by a caller
MontosConsulta == { 0, 5000000 }

----------------------------------------------------------------------------
(* Arithmetic *)

\* x * (num/den)
por(x, num, den) == (x * num) \div den

max(a, b) == IF a >= b THEN a ELSE b
min(a, b) == IF a <= b THEN a ELSE b

\* x * r for a float factor r given as the rational r.num / r.den
mul(x, r) == por(x, r.num, r.den)

----------------------------------------------------------------------------
(* class Empleado *)

SinEmpleado == [tipo |-> "ninguno"]
NoError == "ok"

\* Faulty _validar_datos: a hire date in the future is accepted.
validar_datos_sin_fecha(id_empleado, nombre, fecha_ingreso) ==
    IF id_empleado = "" \/ nombre = ""
    THEN "ID y nombre son obligatorios"
    ELSE NoError

\* Faulty _validar_datos: the name is not checked.
validar_datos_sin_nombre(id_empleado, nombre, fecha_ingreso) ==
    IF id_empleado = ""
    THEN "ID y nombre son obligatorios"
    ELSE IF FechaMayor(fecha_ingreso, hoy)
    THEN "La fecha de ingreso no puede ser futura"
    ELSE NoError

\* Empleado._validar_datos: the message of the ValueError raised, or NoError
validar_datos(id_empleado, nombre, fecha_ingreso) ==
    IF id_empleado = "" \/ nombre = ""
    THEN "ID y nombre son obligatorios"
    ELSE IF FechaMayor(fecha_ingreso, hoy)
    THEN "La fecha de ingreso no puede ser futura"
    ELSE NoError

\* Faulty calcular_deducciones: a variant (the temporary employee) has its
\* own rule, no deduction at all.
calcular_deducciones_por_variante(self, salario_bruto) ==
    IF self.tipo = "Temporal" THEN 0 ELSE por(salario_bruto, 4, 100)

\* Empleado.calcular_deducciones: salario_bruto * 0.04
calcular_deducciones(self, salario_bruto) == por(salario_bruto, 4, 100)

\* Faulty obtener_antiguedad_años: the year is taken off on the anniversary
\* too (<= for <).
obtener_antiguedad_anios_tras_aniversario(self) ==
    LET anios == hoy.year - self.fecha_ingreso.year
    IN  IF MesDiaMenor(hoy, self.fecha_ingreso)
           \/ (hoy.month = self.fecha_ingreso.month
               /\ hoy.day = self.fecha_ingreso.day)
        THEN anios - 1 ELSE anios

\* Empleado.obtener_antiguedad_años
obtener_antiguedad_anios(self) ==
    LET anios == hoy.year - self.fecha_ingreso.year
    IN  IF MesDiaMenor(hoy, self.fecha_ingreso) THEN anios - 1 ELSE anios

----------------------------------------------------------------------------
(* class EmpleadoAsalariado *)

Asalariado_BONO_ALIMENTACION == 1000000
PORCENTAJE_BONO_ANTIGUEDAD == Racional(10, 100)
ANIOS_MINIMOS_BONO == 5

\* Faulty EmpleadoAsalariado.__init__: a salary of 0 is accepted (< for <=).
Asalariado_init_acepta_cero(id_empleado, nombre, fecha_ingreso, salario_mensual) ==
    LET base == validar_datos(id_empleado, nombre, fecha_ingreso)
    IN  IF base # NoError
        THEN [excepcion |-> base, objeto |-> SinEmpleado]
        ELSE IF salario_mensual < 0
        THEN [excepcion |-> "El salario mensual debe ser mayor a cero",
              objeto |-> SinEmpleado]
        ELSE [excepcion |-> NoError,
              objeto |-> [tipo |-> "Asalariado",
                          id_empleado |-> id_empleado,
                          nombre |-> nombre,
                          fecha_ingreso |-> fecha_ingreso,
                          salario_mensual |-> salario_mensual]]

Asalariado_init(id_empleado, nombre, fecha_ingreso, salario_mensual) ==
    LET base == validar_datos(id_empleado, nombre, fecha_ingreso)
    IN  IF base # NoError
        THEN [excepcion |-> base, objeto |-> SinEmpleado]
        ELSE IF salario_mensual <= 0
        THEN [excepcion |-> "El salario mensual debe ser mayor a cero",
              objeto |-> SinEmpleado]
        ELSE [excepcion |-> NoError,
              objeto |-> [tipo |-> "Asalariado",
                          id_empleado |-> id_empleado,
                          nombre |-> nombre,
                          fecha_ingreso |-> fecha_ingreso,
                          salario_mensual |-> salario_mensual]]

Asalariado_calcular_salario_bruto(self) == self.salario_mensual

\* Faulty _calcular_bono_antiguedad: >= for >.
Asalariado_bono_antiguedad_desde_5(self) ==
    IF obtener_antiguedad_anios(self) >= ANIOS_MINIMOS_BONO
    THEN mul(self.salario_mensual, PORCENTAJE_BONO_ANTIGUEDAD)
    ELSE 0

Asalariado_calcular_bono_antiguedad(self) ==
    IF obtener_antiguedad_anios(self) > ANIOS_MINIMOS_BONO
    THEN mul(self.salario_mensual, PORCENTAJE_BONO_ANTIGUEDAD)
    ELSE 0

Asalariado_calcular_beneficios(self) ==
    LET bono_antiguedad == Asalariado_calcular_bono_antiguedad(self)
    IN  Asalariado_BONO_ALIMENTACION + bono_antiguedad

----------------------------------------------------------------------------
(* class EmpleadoPorHoras *)

HORAS_NORMALES_LIMITE == 40
MULTIPLICADOR_HORAS_EXTRAS == Racional(15, 10)
PORCENTAJE_FONDO_AHORRO == Racional(2, 100)
ANIOS_MINIMOS_FONDO == 1

PorHoras_init(id_empleado, nombre, fecha_ingreso, tarifa_por_hora, horas_trabajadas, acepta_fondo_ahorro) ==
    LET base == validar_datos(id_empleado, nombre, fecha_ingreso)
    IN  IF base # NoError
        THEN [excepcion |-> base, objeto |-> SinEmpleado]
        ELSE IF tarifa_por_hora <= 0
        THEN [excepcion |-> "La tarifa por hora debe ser mayor a cero",
              objeto |-> SinEmpleado]
        ELSE IF horas_trabajadas < 0
        THEN [excepcion |-> "Las horas trabajadas no pueden ser negativas",
              objeto |-> SinEmpleado]
        ELSE [excepcion |-> NoError,
              objeto |-> [tipo |-> "PorHoras",
                          id_empleado |-> id_empleado,
                          nombre |-> nombre,
                          fecha_ingreso |-> fecha_ingreso,
                          tarifa_por_hora |-> tarifa_por_hora,
                          horas_trabajadas |-> horas_trabajadas,
                          acepta_fondo_ahorro |-> acepta_fondo_ahorro]]

\* Faulty _calcular_horas_normales: the hours are not capped at 40.
calcular_horas_normales_sin_tope(self) == self.horas_trabajadas

calcular_horas_normales(self) == min(self.horas_trabajadas, HORAS_NORMALES_LIMITE)

calcular_horas_extras(self) ==
    IF self.horas_trabajadas > HORAS_NORMALES_LIMITE
    THEN self.horas_trabajadas - HORAS_NORMALES_LIMITE
    ELSE 0

PorHoras_calcular_salario_bruto(self) ==
    LET horas_normales == calcular_horas_normales(self)
        horas_extras == calcular_horas_extras(self)
        pago_normal == horas_normales * self.tarifa_por_hora
        pago_extras == mul(horas_extras * self.tarifa_por_hora,
                           MULTIPLICADOR_HORAS_EXTRAS)
    IN  pago_normal + pago_extras

\* Faulty _calcular_fondo_ahorro: >= for >.
calcular_fondo_ahorro_desde_1(self) ==
    IF obtener_antiguedad_anios(self) >= ANIOS_MINIMOS_FONDO
       /\ self.acepta_fondo_ahorro
    THEN LET salario_bruto == PorHoras_calcular_salario_bruto(self)
         IN  mul(salario_bruto, PORCENTAJE_FONDO_AHORRO)
    ELSE 0

calcular_fondo_ahorro(self) ==
    IF obtener_antiguedad_anios(self) > ANIOS_MINIMOS_FONDO
       /\ self.acepta_fondo_ahorro
    THEN LET salario_bruto == PorHoras_calcular_salario_bruto(self)
         IN  mul(salario_bruto, PORCENTAJE_FONDO_AHORRO)
    ELSE 0

PorHoras_calcular_beneficios(self) == calcular_fondo_ahorro(self)

\* Faulty horas_trabajadas setter: an accepted assignment also withdraws the
\* employee from the savings fund.
PorHoras_set_horas_retira_fondo(self, horas) ==
    IF horas < 0
    THEN [excepcion |-> "Las horas trabajadas no pueden ser negativas",
          objeto |-> self]
    ELSE [excepcion |-> NoError,
          objeto |-> [self EXCEPT !.horas_trabajadas = horas,
                                  !.acepta_fondo_ahorro = FALSE]]

\* Faulty horas_trabajadas setter: the field is assigned before the check.
PorHoras_set_horas_asigna_antes(self, horas) ==
    IF horas < 0
    THEN [excepcion |-> "Las horas trabajadas no pueden ser negativas",
          objeto |-> [self EXCEPT !.horas_trabajadas = horas]]
    ELSE [excepcion |-> NoError,
          objeto |-> [self EXCEPT !.horas_trabajadas = horas]]

\* the horas_trabajadas setter: the exception raised and the object afterwards
PorHoras_set_horas_trabajadas(self, horas) ==
    IF horas < 0
    THEN [excepcion |-> "Las horas trabajadas no pueden ser negativas",
          objeto |-> self]
    ELSE [excepcion |-> NoError,
          objeto |-> [self EXCEPT !.horas_trabajadas = horas]]

----------------------------------------------------------------------------
(* class EmpleadoPorComision *)

Comision_BONO_ALIMENTACION == 1000000
VENTAS_MINIMAS_BONO == 20000000
PORCENTAJE_BONO_VENTAS == Racional(3, 100)

PorComision_init(id_empleado, nombre, fecha_ingreso, salario_base, porcentaje_comision, ventas_mes) ==
    LET base == validar_datos(id_empleado, nombre, fecha_ingreso)
    IN  IF base # NoError
        THEN [excepcion |-> base, objeto |-> SinEmpleado]
        ELSE IF salario_base <= 0
        THEN [excepcion |-> "El salario base debe ser mayor a cero",
              objeto |-> SinEmpleado]
        ELSE IF porcentaje_comision.num < 0
                \/ porcentaje_comision.num > porcentaje_comision.den
        THEN [excepcion |-> "El porcentaje de comision debe estar entre 0 y 1",
              objeto |-> SinEmpleado]
        ELSE IF ventas_mes < 0
        THEN [excepcion |-> "Las ventas no pueden ser negativas",
              objeto |-> SinEmpleado]
        ELSE [excepcion |-> NoError,
              objeto |-> [tipo |-> "PorComision",
                          id_empleado |-> id_empleado,
                          nombre |-> nombre,
                          fecha_ingreso |-> fecha_ingreso,
                          salario_base |-> salario_base,
                          porcentaje_comision |-> porcentaje_comision,
                          ventas_mes |-> ventas_mes]]

calcular_comision(self) == mul(self.ventas_mes, self.porcentaje_comision)

\* Faulty _calcular_bono_ventas: 3% of the excess over the threshold.
calcular_bono_ventas_sobre_excedente(self) ==
    IF self.ventas_mes > VENTAS_MINIMAS_BONO
    THEN mul(self.ventas_mes - VENTAS_MINIMAS_BONO, PORCENTAJE_BONO_VENTAS)
    ELSE 0

calcular_bono_ventas(self) ==
    IF self.ventas_mes > VENTAS_MINIMAS_BONO
    THEN mul(self.ventas_mes, PORCENTAJE_BONO_VENTAS)
    ELSE 0

PorComision_calcular_salario_bruto(self) ==
    LET comision == calcular_comision(self)
    IN  self.salario_base + comision

PorComision_calcular_beneficios(self) ==
    LET bono_ventas == calcular_bono_ventas(self)
    IN  Comision_BONO_ALIMENTACION + bono_ventas

\* Faulty ventas_mes setter: the value is validated and never stored.
PorComision_set_ventas_mes_sin_asignar(self, ventas) ==
    IF ventas < 0
    THEN [excepcion |-> "Las ventas no pueden ser negativas", objeto |-> self]
    ELSE [excepcion |-> NoError, objeto |-> self]

\* the ventas_mes setter: the exception raised and the object afterwards
PorComision_set_ventas_mes(self, ventas) ==
    IF ventas < 0
    THEN [excepcion |-> "Las ventas no pueden ser negativas", objeto |-> self]
    ELSE [excepcion |-> NoError, objeto |-> [self EXCEPT !.ventas_mes = ventas]]

----------------------------------------------------------------------------
(* class EmpleadoTemporal *)

\* Faulty EmpleadoTemporal.__init__: an end date equal to the hire date is
\* accepted (< for <=).
Temporal_init_acepta_igual(id_empleado, nombre, fecha_ingreso, salario_mensual, fecha_fin_contrato) ==
    LET base == validar_datos(id_empleado, nombre, fecha_ingreso)
    IN  IF base # NoError
        THEN [excepcion |-> base, objeto |-> SinEmpleado]
        ELSE IF salario_mensual <= 0
        THEN [excepcion |-> "El salario mensual debe ser mayor a cero",
              objeto |-> SinEmpleado]
        ELSE IF FechaMenor(fecha_fin_contrato, fecha_ingreso)
        THEN [excepcion |-> "La fecha de fin debe ser posterior a la fecha de ingreso",
              objeto |-> SinEmpleado]
        ELSE [excepcion |-> NoError,
              objeto |-> [tipo |-> "Temporal",
                          id_empleado |-> id_empleado,
                          nombre |-> nombre,
                          fecha_ingreso |-> fecha_ingreso,
                          salario_mensual |-> salario_mensual,
                          fecha_fin_contrato |-> fecha_fin_contrato]]

Temporal_init(id_empleado, nombre, fecha_ingreso, salario_mensual, fecha_fin_contrato) ==
    LET base == validar_datos(id_empleado, nombre, fecha_ingreso)
    IN  IF base # NoError
        THEN [excepcion |-> base, objeto |-> SinEmpleado]
        ELSE IF salario_mensual <= 0
        THEN [excepcion |-> "El salario mensual debe ser mayor a cero",
              objeto |-> SinEmpleado]
        ELSE IF FechaMenorIgual(fecha_fin_contrato, fecha_ingreso)
        THEN [excepcion |-> "La fecha de fin debe ser posterior a la fecha de ingreso",
              objeto |-> SinEmpleado]
        ELSE [excepcion |-> NoError,
              objeto |-> [tipo |-> "Temporal",
                          id_empleado |-> id_empleado,
                          nombre |-> nombre,
                          fecha_ingreso |-> fecha_ingreso,
                          salario_mensual |-> salario_mensual,
                          fecha_fin_contrato |-> fecha_fin_contrato]]

\* Faulty EmpleadoTemporal.calcular_salario_bruto: nothing is paid once the
\* contract has ended.
Temporal_salario_bruto_si_vigente(self) ==
    IF FechaMenorIgual(hoy, self.fecha_fin_contrato)
    THEN self.salario_mensual
    ELSE 0

Temporal_calcular_salario_bruto(self) == self.salario_mensual

Temporal_calcular_beneficios(self) == 0

\* Faulty contrato_vigente: < for <=.
contrato_vigente_antes_del_fin(self) == FechaMenor(hoy, self.fecha_fin_contrato)

contrato_vigente(self) == FechaMenorIgual(hoy, self.fecha_fin_contrato)

\* Faulty dias_restantes_contrato: the days are clamped at 0.
dias_restantes_contrato_con_tope(self) ==
    max(0, DiasEntre(self.fecha_fin_contrato, hoy))

dias_restantes_contrato(self) == DiasEntre(self.fecha_fin_contrato, hoy)

----------------------------------------------------------------------------
(* The abstract methods, dispatched on the object's class, and the shared   *)
(* net pay of Empleado                                                      *)

calcular_salario_bruto(self) ==
    CASE self.tipo = "Asalariado" -> Asalariado_calcular_salario_bruto(self)
      [] self.tipo = "PorHoras" -> PorHoras_calcular_salario_bruto(self)
      [] self.tipo = "PorComision" -> PorComision_calcular_salario_bruto(self)
      [] self.tipo = "Temporal" -> Temporal_calcular_salario_bruto(self)

calcular_beneficios(self) ==
    CASE self.tipo = "Asalariado" -> Asalariado_calcular_beneficios(self)
      [] self.tipo = "PorHoras" -> PorHoras_calcular_beneficios(self)
      [] self.tipo = "PorComision" -> PorComision_calcular_beneficios(self)
      [] self.tipo = "Temporal" -> Temporal_calcular_beneficios(self)

\* Faulty calcular_salario_neto: the benefits are subtracted and the result
\* is returned without the floor at 0.
calcular_salario_neto_sin_piso(self) ==
    LET salario_bruto == calcular_salario_bruto(self)
        beneficios == calcular_beneficios(self)
        deducciones == calcular_deducciones(self, salario_bruto)
    IN  salario_bruto - beneficios - deducciones

\* Faulty calcular_salario_neto: the deductions are taken on gross pay plus
\* benefits.
calcular_salario_neto_deduce_beneficios(self) ==
    LET salario_bruto == calcular_salario_bruto(self)
        beneficios == calcular_beneficios(self)
        deducciones == calcular_deducciones(self, salario_bruto + beneficios)
        salario_neto == salario_bruto + beneficios - deducciones
    IN  max(0, salario_neto)

\* Empleado.calcular_salario_neto
calcular_salario_neto(self) ==
    LET salario_bruto == calcular_salario_bruto(self)
        beneficios == calcular_beneficios(self)
        deducciones == calcular_deducciones(self, salario_bruto)
        salario_neto == salario_bruto + beneficios - deducciones
    IN  max(0, salario_neto)

----------------------------------------------------------------------------
(* obtener_detalle_nomina.  The call reads date.today() more than once, and *)
(* midnight may fall between two reads: each variant's method is two steps, *)
(* *_detalle_primera up to and with the first read of the clock and         *)
(* *_detalle_resto from the next read to the return.                        *)

Digito(n) ==
    CASE n = 0 -> "0" [] n = 1 -> "1" [] n = 2 -> "2" [] n = 3 -> "3"
      [] n = 4 -> "4" [] n = 5 -> "5" [] n = 6 -> "6" [] n = 7 -> "7"
      [] n = 8 -> "8" [] n = 9 -> "9"

\* date.strftime('%Y-%m-%d'), the string as the sequence of its characters
strftime(f) ==
    << Digito((f.year \div 1000) % 10), Digito((f.year \div 100) % 10),
       Digito((f.year \div 10) % 10), Digito(f.year % 10), "-",
       Digito(f.month \div 10), Digito(f.month % 10), "-",
       Digito(f.day \div 10), Digito(f.day % 10) >>

\* EmpleadoAsalariado.obtener_detalle_nomina, the three assignments
Asalariado_detalle_primera(self) ==
    LET salario_bruto == Asalariado_calcular_salario_bruto(self)
        bono_antiguedad == Asalariado_calcular_bono_antiguedad(self)
        deducciones == calcular_deducciones(self, salario_bruto)
    IN  [salario_bruto |-> salario_bruto,
         bono_antiguedad |-> bono_antiguedad,
         deducciones |-> deducciones]

\* EmpleadoAsalariado.obtener_detalle_nomina, the dictionary returned
Asalariado_detalle_resto(self, local) ==
    [empleado |-> self.nombre,
     tipo |-> "Asalariado",
     salario_bruto |-> local.salario_bruto,
     bono_alimentacion |-> Asalariado_BONO_ALIMENTACION,
     bono_antiguedad |-> local.bono_antiguedad,
     deducciones |-> local.deducciones,
     salario_neto |-> calcular_salario_neto(self)]

\* EmpleadoPorHoras.obtener_detalle_nomina, the three assignments
PorHoras_detalle_primera(self) ==
    LET salario_bruto == PorHoras_calcular_salario_bruto(self)
        fondo_ahorro == calcular_fondo_ahorro(self)
        deducciones == calcular_deducciones(self, salario_bruto)
    IN  [salario_bruto |-> salario_bruto,
         fondo_ahorro |-> fondo_ahorro,
         deducciones |-> deducciones]

\* EmpleadoPorHoras.obtener_detalle_nomina, the dictionary returned
PorHoras_detalle_resto(self, local) ==
    [empleado |-> self.nombre,
     tipo |-> "Por Horas",
     horas_normales |-> calcular_horas_normales(self),
     horas_extras |-> calcular_horas_extras(self),
     salario_bruto |-> local.salario_bruto,
     fondo_ahorro |-> local.fondo_ahorro,
     deducciones |-> local.deducciones,
     salario_neto |-> calcular_salario_neto(self)]

\* EmpleadoPorComision.obtener_detalle_nomina, the four assignments
PorComision_detalle_primera(self) ==
    LET salario_bruto == PorComision_calcular_salario_bruto(self)
        comision == calcular_comision(self)
        bono_ventas == calcular_bono_ventas(self)
        deducciones == calcular_deducciones(self, salario_bruto)
    IN  [salario_bruto |-> salario_bruto,
         comision |-> comision,
         bono_ventas |-> bono_ventas,
         deducciones |-> deducciones]

\* EmpleadoPorComision.obtener_detalle_nomina, the dictionary returned
PorComision_detalle_resto(self, local) ==
    [empleado |-> self.nombre,
     tipo |-> "Por Comision",
     salario_base |-> self.salario_base,
     ventas |-> self.ventas_mes,
     comision |-> local.comision,
     salario_bruto |-> local.salario_bruto,
     bono_alimentacion |-> Comision_BONO_ALIMENTACION,
     bono_ventas |-> local.bono_ventas,
     deducciones |-> local.deducciones,
     salario_neto |-> calcular_salario_neto(self)]

\* EmpleadoTemporal.obtener_detalle_nomina, the assignments and the entries
\* of the dictionary up to 'contrato_vigente', the first read of the clock
Temporal_detalle_primera(self) ==
    LET salario_bruto == Temporal_calcular_salario_bruto(self)
        deducciones == calcular_deducciones(self, salario_bruto)
    IN  [salario_bruto |-> salario_bruto,
         deducciones |-> deducciones,
         salario_neto |-> calcular_salario_neto(self),
         fecha_fin_contrato |-> strftime(self.fecha_fin_contrato),
         contrato_vigente |-> contrato_vigente(self)]

\* EmpleadoTemporal.obtener_detalle_nomina, 'dias_restantes' and the return
Temporal_detalle_resto(self, local) ==
    [empleado |-> self.nombre,
     tipo |-> "Temporal",
     salario_bruto |-> local.salario_bruto,
     beneficios |-> 0,
     deducciones |-> local.deducciones,
     salario_neto |-> local.salario_neto,
     fecha_fin_contrato |-> local.fecha_fin_contrato,
     contrato_vigente |-> local.contrato_vigente,
     dias_restantes |-> dias_restantes_contrato(self)]

detalle_primera(self) ==
    CASE self.tipo = "Asalariado" -> Asalariado_detalle_primera(self)
      [] self.tipo = "PorHoras" -> PorHoras_detalle_primera(self)
      [] self.tipo = "PorComision" -> PorComision_detalle_primera(self)
      [] self.tipo = "Temporal" -> Temporal_detalle_primera(self)

detalle_resto(self, local) ==
    CASE self.tipo = "Asalariado" -> Asalariado_detalle_resto(self, local)
      [] self.tipo = "PorHoras" -> PorHoras_detalle_resto(self, local)
      [] self.tipo = "PorComision" -> PorComision_detalle_resto(self, local)
      [] self.tipo = "Temporal" -> Temporal_detalle_resto(self, local)

----------------------------------------------------------------------------
(* Operations *)

SinPrevia == [op |-> "ninguna"]
Inactivo == [fase |-> "ninguna"]

\* the caller is between two calls (the model is single-threaded: while
\* obtener_detalle_nomina runs only the clock moves)
EnReposo == en_curso.fase = "ninguna"

Init ==
    /\ hoy = FechaInicial
    /\ emp = SinEmpleado
    /\ llamada = [op |-> "ninguna", excepcion |-> NoError]
    /\ previa = SinPrevia
    /\ en_curso = Inactivo

\* A constructor runs when no object exists yet.  A ValueError it raises is
\* caught nowhere (main.py, and the core itself): it ends the run, and the
\* next attempt belongs to a later run, after AvanzarDia.
PuedeConstruir ==
    emp.tipo = "ninguno" /\ llamada.excepcion = NoError /\ EnReposo

\* EmpleadoAsalariado(id_empleado, nombre, fecha_ingreso, salario_mensual)
NuevoAsalariado ==
    /\ PuedeConstruir
    /\ \E i \in Ids, n \in Nombres, f \in FechasIngreso, s \in Salarios :
          LET r == Asalariado_init(i, n, f, s)
          IN  /\ emp' = r.objeto
              /\ llamada' = [op |-> "EmpleadoAsalariado",
                             excepcion |-> r.excepcion,
                             id_empleado |-> i, nombre |-> n,
                             fecha_ingreso |-> f, salario_mensual |-> s]
    /\ previa' = SinPrevia
    /\ UNCHANGED <<hoy, en_curso>>

\* EmpleadoPorHoras(id_empleado, nombre, fecha_ingreso, tarifa_por_hora,
\*                  horas_trabajadas, acepta_fondo_ahorro)
NuevoPorHoras ==
    /\ PuedeConstruir
    /\ \E i \in Ids, n \in Nombres, f \in FechasIngreso, t \in Tarifas,
          h \in Horas, a \in BOOLEAN :
          LET r == PorHoras_init(i, n, f, t, h, a)
          IN  /\ emp' = r.objeto
              /\ llamada' = [op |-> "EmpleadoPorHoras",
                             excepcion |-> r.excepcion,
                             id_empleado |-> i, nombre |-> n,
                             fecha_ingreso |-> f, tarifa_por_hora |-> t,
                             horas_trabajadas |-> h,
                             acepta_fondo_ahorro |-> a]
    /\ previa' = SinPrevia
    /\ UNCHANGED <<hoy, en_curso>>

\* EmpleadoPorComision(id_empleado, nombre, fecha_ingreso, salario_base,
\*                     porcentaje_comision, ventas_mes)
NuevoPorComision ==
    /\ PuedeConstruir
    /\ \E i \in Ids, n \in Nombres, f \in FechasIngreso, b \in SalariosBase,
          p \in Porcentajes, v \in Ventas :
          LET r == PorComision_init(i, n, f, b, p, v)
          IN  /\ emp' = r.objeto
              /\ llamada' = [op |-> "EmpleadoPorComision",
                             excepcion |-> r.excepcion,
                             id_empleado |-> i, nombre |-> n,
                             fecha_ingreso |-> f, salario_base |-> b,
                             porcentaje_comision |-> p, ventas_mes |-> v]
    /\ previa' = SinPrevia
    /\ UNCHANGED <<hoy, en_curso>>

\* EmpleadoTemporal(id_empleado, nombre, fecha_ingreso, salario_mensual,
\*                  fecha_fin_contrato)
NuevoTemporal ==
    /\ PuedeConstruir
    /\ \E i \in Ids, n \in Nombres, f \in FechasIngreso, s \in Salarios,
          e \in FechasFin :
          LET r == Temporal_init(i, n, f, s, e)
          IN  /\ emp' = r.objeto
              /\ llamada' = [op |-> "EmpleadoTemporal",
                             excepcion |-> r.excepcion,
                             id_empleado |-> i, nombre |-> n,
                             fecha_ingreso |-> f, salario_mensual |-> s,
                             fecha_fin_contrato |-> e]
    /\ previa' = SinPrevia
    /\ UNCHANGED <<hoy, en_curso>>

\* emp.horas_trabajadas = h
AsignarHoras ==
    /\ emp.tipo = "PorHoras" /\ EnReposo
    /\ \E h \in Horas :
          LET r == PorHoras_set_horas_trabajadas(emp, h)
          IN  /\ emp' = r.objeto
              /\ llamada' = [op |-> "horas_trabajadas",
                             excepcion |-> r.excepcion, valor |-> h]
    /\ previa' = SinPrevia
    /\ UNCHANGED <<hoy, en_curso>>

\* emp.ventas_mes = v
AsignarVentas ==
    /\ emp.tipo = "PorComision" /\ EnReposo
    /\ \E v \in Ventas :
          LET r == PorComision_set_ventas_mes(emp, v)
          IN  /\ emp' = r.objeto
              /\ llamada' = [op |-> "ventas_mes",
                             excepcion |-> r.excepcion, valor |-> v]
    /\ previa' = SinPrevia
    /\ UNCHANGED <<hoy, en_curso>>

\* a query that is neither calcular_salario_neto nor obtener_detalle_nomina
\* returned valor
Consultada(op, valor) ==
    /\ llamada' = [op |-> op, excepcion |-> NoError, valor |-> valor]
    /\ UNCHANGED <<hoy, emp, previa, en_curso>>

\* emp.calcular_salario_bruto()
ConsultarSalarioBruto ==
    /\ emp.tipo # "ninguno" /\ EnReposo
    /\ Consultada("calcular_salario_bruto", calcular_salario_bruto(emp))

\* emp.calcular_beneficios()
ConsultarBeneficios ==
    /\ emp.tipo # "ninguno" /\ EnReposo
    /\ Consultada("calcular_beneficios", calcular_beneficios(emp))

\* emp.calcular_deducciones(g)
ConsultarDeducciones ==
    /\ emp.tipo # "ninguno" /\ EnReposo
    /\ \E g \in MontosConsulta :
          Consultada("calcular_deducciones", calcular_deducciones(emp, g))

\* emp.obtener_antiguedad_años()
ConsultarAntiguedad ==
    /\ emp.tipo # "ninguno" /\ EnReposo
    /\ Consultada("obtener_antiguedad_anios", obtener_antiguedad_anios(emp))

\* emp.contrato_vigente()
ConsultarContratoVigente ==
    /\ emp.tipo = "Temporal" /\ EnReposo
    /\ Consultada("contrato_vigente", contrato_vigente(emp))

\* emp.dias_restantes_contrato()
ConsultarDiasRestantes ==
    /\ emp.tipo = "Temporal" /\ EnReposo
    /\ Consultada("dias_restantes_contrato", dias_restantes_contrato(emp))

\* faulty variant: computing the net pay uses up the hours of the month
ConsultarSalarioNeto_consume_horas ==
    /\ emp.tipo # "ninguno" /\ EnReposo
    /\ LET valor == calcular_salario_neto(emp)
       IN  /\ llamada' = [op |-> "calcular_salario_neto",
                          excepcion |-> NoError,
                          valor |-> valor, inicio |-> hoy,
                          anterior |-> previa]
           /\ previa' = [op |-> "calcular_salario_neto",
                         valor |-> valor, fecha |-> hoy, fin |-> hoy]
    /\ emp' = IF emp.tipo = "PorHoras"
              THEN [emp EXCEPT !.horas_trabajadas = 0] ELSE emp
    /\ UNCHANGED <<hoy, en_curso>>

\* emp.calcular_salario_neto()
ConsultarSalarioNeto ==
    /\ emp.tipo # "ninguno" /\ EnReposo
    /\ LET valor == calcular_salario_neto(emp)
       IN  /\ llamada' = [op |-> "calcular_salario_neto",
                          excepcion |-> NoError,
                          valor |-> valor, inicio |-> hoy,
                          anterior |-> previa]
           /\ previa' = [op |-> "calcular_salario_neto",
                         valor |-> valor, fecha |-> hoy, fin |-> hoy]
    /\ UNCHANGED <<hoy, emp, en_curso>>

\* emp.obtener_detalle_nomina(), up to and with its first read of the clock
DetallePrimera ==
    /\ emp.tipo # "ninguno" /\ EnReposo
    /\ en_curso' = [fase |-> "primera", local |-> detalle_primera(emp),
                    fecha |-> hoy]
    /\ UNCHANGED <<hoy, emp, llamada, previa>>

\* emp.obtener_detalle_nomina(), from its next read of the clock to the return
DetalleResto ==
    /\ en_curso.fase = "primera"
    /\ LET valor == detalle_resto(emp, en_curso.local)
       IN  /\ llamada' = [op |-> "obtener_detalle_nomina",
                          excepcion |-> NoError,
                          valor |-> valor, inicio |-> en_curso.fecha,
                          anterior |-> previa]
           /\ previa' = [op |-> "obtener_detalle_nomina",
                         valor |-> valor, fecha |-> en_curso.fecha,
                         fin |-> hoy]
    /\ en_curso' = Inactivo
    /\ UNCHANGED <<hoy, emp>>

\* midnight: date.today() moves to the next day
AvanzarDia ==
    /\ DiasEntre(hoy, FechaInicial) < MaxDias
    /\ hoy' = DiaSiguiente(hoy)
    /\ llamada' = [op |-> "avanzar_dia", excepcion |-> NoError]
    /\ UNCHANGED <<emp, previa, en_curso>>

Next ==
    \/ NuevoAsalariado
    \/ NuevoPorHoras
    \/ NuevoPorComision
    \/ NuevoTemporal
    \/ AsignarHoras
    \/ AsignarVentas
    \/ ConsultarSalarioBruto
    \/ ConsultarBeneficios
    \/ ConsultarDeducciones
    \/ ConsultarAntiguedad
    \/ ConsultarContratoVigente
    \/ ConsultarDiasRestantes
    \/ ConsultarSalarioNeto
    \/ DetallePrimera
    \/ DetalleResto
    \/ AvanzarDia

Spec == Init /\ [][Next]_vars

\* the calendar does not stop: while a next day exists in the window it comes
SpecJusto == Spec /\ WF_vars(AvanzarDia)

----------------------------------------------------------------------------
(* Model sanity: every x * factor of the model is an exact quotient, so the *)
(* whole pesos of the model are the values the real-number formulas give.   *)

Divide(x, r) == (x * r.num) % r.den = 0

Exacto ==
    /\ emp.tipo = "Asalariado" =>
          /\ Divide(emp.salario_mensual, PORCENTAJE_BONO_ANTIGUEDAD)
          /\ Divide(emp.salario_mensual, Racional(4, 100))
    /\ emp.tipo = "PorHoras" =>
          /\ Divide(calcular_horas_extras(emp) * emp.tarifa_por_hora,
                    MULTIPLICADOR_HORAS_EXTRAS)
          /\ Divide(PorHoras_calcular_salario_bruto(emp), PORCENTAJE_FONDO_AHORRO)
          /\ Divide(PorHoras_calcular_salario_bruto(emp), Racional(4, 100))
    /\ emp.tipo = "PorComision" =>
          /\ Divide(emp.ventas_mes, emp.porcentaje_comision)
          /\ Divide(emp.ventas_mes, PORCENTAJE_BONO_VENTAS)
          /\ Divide(PorComision_calcular_salario_bruto(emp), Racional(4, 100))
    /\ emp.tipo = "Temporal" =>
          Divide(emp.salario_mensual, Racional(4, 100))

----------------------------------------------------------------------------
(* Claims *)

Existe == emp.tipo # "ninguno"

Constructores ==
    { "EmpleadoAsalariado", "EmpleadoPorHoras", "EmpleadoPorComision",
      "EmpleadoTemporal" }

\* the call recorded in llamada raised a ValueError
Fallo == llamada.excepcion # NoError

\* C1: whatever employee exists, after any run of accepted and rejected
\* setter calls and any advance of the date, calcular_salario_neto() >= 0.
C1_SalarioNetoNoNegativo == Existe => calcular_salario_neto(emp) >= 0

\* C1 witness: a commission employee, on a later day than the first one,
\* right after a rejected ventas_mes assignment.
C1_Testigo ==
    /\ emp.tipo = "PorComision"
    /\ llamada.op = "ventas_mes" /\ Fallo
    /\ FechaMayor(hoy, FechaInicial)
    /\ calcular_salario_neto(emp) > 0

\* amounts passed to calcular_deducciones
Montos == { -2500, 0, 25, 1750000, 5000000 }

\* C2: calcular_deducciones(g) is exactly 4% of the amount g passed in, for
\* the employee's own gross pay and for any other amount, whatever the
\* variant and the fields of the employee.
C2_DeduccionesCuatroPorCiento ==
    Existe =>
        \A g \in Montos \cup { calcular_salario_bruto(emp) } :
            100 * calcular_deducciones(emp, g) = 4 * g

\* C2 witness: the test's call, on a commission employee.
C2_Testigo ==
    /\ emp.tipo = "PorComision"
    /\ calcular_deducciones(emp, 5000000) = 200000

MensajesBase ==
    { "ID y nombre son obligatorios", "La fecha de ingreso no puede ser futura" }

\* C3: a constructor call of any variant with an empty id, an empty name or
\* a hire date after today raises and yields no object, whatever the other
\* arguments; a hire date equal to today passes the common validation.
C3_ValidacionComun ==
    llamada.op \in Constructores =>
        /\ ( \/ llamada.id_empleado = ""
             \/ llamada.nombre = ""
             \/ FechaMayor(llamada.fecha_ingreso, hoy) )
           => (Fallo /\ emp = SinEmpleado)
        /\ ( /\ llamada.id_empleado # ""
             /\ llamada.nombre # ""
             /\ llamada.fecha_ingreso = hoy )
           => llamada.excepcion \notin MensajesBase

\* C3 witness: a temporary employee with valid variant arguments is refused
\* for a hire date one day in the future.
C3_Testigo ==
    /\ llamada.op = "EmpleadoTemporal"
    /\ llamada.id_empleado # "" /\ llamada.nombre # ""
    /\ llamada.fecha_ingreso = DiaSiguiente(hoy)
    /\ llamada.salario_mensual > 0
    /\ FechaMayor(llamada.fecha_fin_contrato, llamada.fecha_ingreso)
    /\ Fallo /\ emp = SinEmpleado

\* the common arguments of the recorded constructor call are valid
BaseValida ==
    /\ llamada.id_empleado # ""
    /\ llamada.nombre # ""
    /\ ~FechaMayor(llamada.fecha_ingreso, hoy)

\* the numeric arguments of the recorded constructor call are out of range
FueraDeRango ==
    CASE llamada.op = "EmpleadoAsalariado" -> llamada.salario_mensual <= 0
      [] llamada.op = "EmpleadoPorHoras" ->
            llamada.tarifa_por_hora <= 0 \/ llamada.horas_trabajadas < 0
      [] llamada.op = "EmpleadoPorComision" ->
            \/ llamada.salario_base <= 0
            \/ llamada.porcentaje_comision.num < 0
            \/ llamada.porcentaje_comision.num > llamada.porcentaje_comision.den
            \/ llamada.ventas_mes < 0

\* the object holds exactly the arguments of the recorded constructor call
ObjetoDeLaLlamada ==
    /\ emp.id_empleado = llamada.id_empleado
    /\ emp.nombre = llamada.nombre
    /\ emp.fecha_ingreso = llamada.fecha_ingreso
    /\ CASE llamada.op = "EmpleadoAsalariado" ->
              /\ emp.tipo = "Asalariado"
              /\ emp.salario_mensual = llamada.salario_mensual
         [] llamada.op = "EmpleadoPorHoras" ->
              /\ emp.tipo = "PorHoras"
              /\ emp.tarifa_por_hora = llamada.tarifa_por_hora
              /\ emp.horas_trabajadas = llamada.horas_trabajadas
              /\ emp.acepta_fondo_ahorro = llamada.acepta_fondo_ahorro
         [] llamada.op = "EmpleadoPorComision" ->
              /\ emp.tipo = "PorComision"
              /\ emp.salario_base = llamada.salario_base
              /\ emp.porcentaje_comision = llamada.porcentaje_comision
              /\ emp.ventas_mes = llamada.ventas_mes

\* the range constraints of the three variants, on the object
RangosDelObjeto ==
    /\ emp.tipo = "Asalariado" => emp.salario_mensual > 0
    /\ emp.tipo = "PorHoras" =>
          emp.tarifa_por_hora > 0 /\ emp.horas_trabajadas >= 0
    /\ emp.tipo = "PorComision" =>
          /\ emp.salario_base > 0
          /\ emp.porcentaje_comision.num >= 0
          /\ emp.porcentaje_comision.num <= emp.porcentaje_comision.den
          /\ emp.ventas_mes >= 0

\* C4: with a valid id, name and hire date, the salaried, hourly and
\* commission constructors raise exactly when a numeric argument is out of
\* range; a call that raises leaves no object, one that does not yields the
\* object of its arguments; every object that exists is within the ranges.
C4_ValidacionPorVariante ==
    /\ ( /\ llamada.op \in Constructores \ { "EmpleadoTemporal" }
         /\ BaseValida )
       => /\ Fallo <=> FueraDeRango
          /\ Fallo => emp = SinEmpleado
          /\ ~Fallo => ObjetoDeLaLlamada
    /\ RangosDelObjeto

\* C4 witness: a commission employee constructed on the boundaries
\* porcentaje_comision = 1 and ventas_mes = 0.
C4_Testigo ==
    /\ llamada.op = "EmpleadoPorComision" /\ ~Fallo
    /\ emp.tipo = "PorComision"
    /\ emp.porcentaje_comision = Racional(1, 1)
    /\ emp.ventas_mes = 0

\* a step that is a horas_trabajadas or ventas_mes assignment of a negative
\* value raises and changes no field of the object
AsignacionNegativaRechazada ==
    ( /\ llamada'.op \in { "horas_trabajadas", "ventas_mes" }
      /\ llamada'.valor < 0 )
    => ( llamada'.excepcion # NoError /\ emp' = emp )

MutablesNoNegativos ==
    /\ emp.tipo = "PorHoras" => emp.horas_trabajadas >= 0
    /\ emp.tipo = "PorComision" => emp.ventas_mes >= 0

\* C5: assigning a negative value to horas_trabajadas or ventas_mes raises
\* and leaves the field as it was, so both fields are >= 0 in every state.
C5_SettersRechazanNegativos ==
    [][AsignacionNegativaRechazada]_vars /\ []MutablesNoNegativos

\* C5 witness: an hourly employee keeps its 45 hours after a rejected
\* assignment of a negative value.
C5_Testigo ==
    /\ emp.tipo = "PorHoras"
    /\ llamada.op = "horas_trabajadas" /\ llamada.valor < 0 /\ Fallo
    /\ emp.horas_trabajadas = 45

\* C6: a salaried employee's calcular_beneficios() is 1,000,000 plus 10% of
\* salario_mensual when the tenure in whole years is > 5, and exactly
\* 1,000,000 otherwise, in particular at a tenure of exactly 5.
C6_BeneficiosAsalariado ==
    emp.tipo = "Asalariado" =>
        /\ obtener_antiguedad_anios(emp) > 5 =>
              10 * (calcular_beneficios(emp) - 1000000) = emp.salario_mensual
        /\ obtener_antiguedad_anios(emp) <= 5 =>
              calcular_beneficios(emp) = 1000000

\* C6 witness: a salaried employee on the fifth anniversary of the hire date.
C6_Testigo ==
    /\ emp.tipo = "Asalariado"
    /\ hoy.year = emp.fecha_ingreso.year + 5
    /\ hoy.month = emp.fecha_ingreso.month
    /\ hoy.day = emp.fecha_ingreso.day
    /\ calcular_beneficios(emp) = 1000000

\* C7: an hourly employee's gross pay is min(h, 40) * rate +
\* max(h - 40, 0) * rate * 1.5 for its h = horas_trabajadas >= 0; at h = 40
\* there are no overtime hours and the pay is 40 * rate; regular plus
\* overtime hours are h.
C7_SalarioBrutoPorHoras ==
    emp.tipo = "PorHoras" =>
        LET h == emp.horas_trabajadas
            t == emp.tarifa_por_hora
        IN  /\ 2 * calcular_salario_bruto(emp)
                  = 2 * min(h, 40) * t + 3 * max(h - 40, 0) * t
            /\ h = 40 =>
                  /\ calcular_horas_extras(emp) = 0
                  /\ calcular_salario_bruto(emp) = 40 * t
            /\ calcular_horas_normales(emp) + calcular_horas_extras(emp) = h

\* C7 witness: 45 hours at 50,000 pay 2,375,000 (5 overtime hours), the
\* hours having been assigned through the setter.
C7_Testigo ==
    /\ emp.tipo = "PorHoras"
    /\ llamada.op = "horas_trabajadas" /\ ~Fallo
    /\ emp.horas_trabajadas = 45 /\ emp.tarifa_por_hora = 50000
    /\ calcular_horas_extras(emp) = 5
    /\ calcular_salario_bruto(emp) = 2375000

\* tenure > 1 year and the savings fund accepted
CalificaFondo ==
    obtener_antiguedad_anios(emp) > 1 /\ emp.acepta_fondo_ahorro

\* C8 as stated: an hourly employee's calcular_beneficios() is 2% of the
\* current gross pay if and only if the tenure is > 1 and the fund is
\* accepted, and is 0 in every other case.
C8_Original ==
    emp.tipo = "PorHoras" =>
        /\ (50 * calcular_beneficios(emp) = calcular_salario_bruto(emp))
              <=> CalificaFondo
        /\ ~CalificaFondo => calcular_beneficios(emp) = 0

\* C8 amended: an hourly employee's calcular_beneficios() is 2% of the
\* current gross pay when the tenure is > 1 and the fund is accepted, and 0
\* in every other case (no meal benefit is added); it equals 2% of the gross
\* pay if and only if the employee qualifies whenever horas_trabajadas > 0
\* (with 0 hours the gross pay is 0, and so are both amounts).
C8_BeneficiosPorHoras ==
    emp.tipo = "PorHoras" =>
        /\ CalificaFondo =>
              50 * calcular_beneficios(emp) = calcular_salario_bruto(emp)
        /\ ~CalificaFondo => calcular_beneficios(emp) = 0
        /\ emp.horas_trabajadas > 0 =>
              ( (50 * calcular_beneficios(emp) = calcular_salario_bruto(emp))
                   <=> CalificaFondo )

\* C8 witness: the fund of an employee who accepted it, on the second
\* anniversary of the hire date (tenure 2), with 40 hours at 50,000.
C8_Testigo ==
    /\ emp.tipo = "PorHoras"
    /\ emp.acepta_fondo_ahorro
    /\ hoy.year = emp.fecha_ingreso.year + 2
    /\ hoy.month = emp.fecha_ingreso.month
    /\ hoy.day = emp.fecha_ingreso.day
    /\ emp.horas_trabajadas = 40 /\ emp.tarifa_por_hora = 50000
    /\ calcular_beneficios(emp) = 40000

\* C9: a commission employee's calcular_beneficios() is 1,000,000 plus 3% of
\* the whole ventas_mes when ventas_mes > 20,000,000 (never 3% of the excess
\* over 20,000,000), and exactly 1,000,000 when ventas_mes <= 20,000,000.
C9_BeneficiosPorComision ==
    emp.tipo = "PorComision" =>
        /\ emp.ventas_mes > 20000000 =>
              /\ 100 * (calcular_beneficios(emp) - 1000000) = 3 * emp.ventas_mes
              /\ 100 * (calcular_beneficios(emp) - 1000000)
                    # 3 * (emp.ventas_mes - 20000000)
        /\ emp.ventas_mes <= 20000000 => calcular_beneficios(emp) = 1000000

\* C9 witness: sales of exactly 20,000,000 earn the meal benefit alone.
C9_Testigo ==
    /\ emp.tipo = "PorComision"
    /\ emp.ventas_mes = 20000000
    /\ calcular_beneficios(emp) = 1000000

\* C10: a temporary employee has benefits 0 and gross pay salario_mensual at
\* every date, the contract active or expired, and so a net pay of
\* salario_mensual minus 4% of salario_mensual.
C10_Temporal ==
    emp.tipo = "Temporal" =>
        /\ calcular_beneficios(emp) = 0
        /\ calcular_salario_bruto(emp) = emp.salario_mensual
        /\ 100 * calcular_salario_neto(emp) = 96 * emp.salario_mensual

\* C10 witness: a temporary employee the day after the contract ended.
C10_Testigo ==
    /\ emp.tipo = "Temporal"
    /\ hoy = DiaSiguiente(emp.fecha_fin_contrato)
    /\ ~contrato_vigente(emp)
    /\ 100 * calcular_salario_neto(emp) = 96 * emp.salario_mensual

\* C11: a temporary employee's contrato_vigente() is true exactly when
\* today is on or before fecha_fin_contrato: true on the end date, false on
\* every later date, and true exactly when dias_restantes_contrato() read on
\* the same date is >= 0.
C11_ContratoVigente ==
    emp.tipo = "Temporal" =>
        /\ contrato_vigente(emp) <=> ~FechaMenor(emp.fecha_fin_contrato, hoy)
        /\ hoy = emp.fecha_fin_contrato => contrato_vigente(emp)
        /\ FechaMenor(emp.fecha_fin_contrato, hoy) => ~contrato_vigente(emp)
        /\ contrato_vigente(emp) <=> dias_restantes_contrato(emp) >= 0

\* C11 witness: contrato_vigente() answers TRUE on the end date itself.
C11_Testigo ==
    /\ emp.tipo = "Temporal"
    /\ hoy = emp.fecha_fin_contrato
    /\ llamada.op = "contrato_vigente" /\ llamada.valor = TRUE

\* a day passing takes one day off the days remaining
UnDiaMenos ==
    (emp.tipo = "Temporal" /\ emp' = emp /\ hoy' # hoy)
    => dias_restantes_contrato(emp)' = dias_restantes_contrato(emp) - 1

\* the sign of the days remaining, and their number on three dates that are
\* counted by hand: 2024-02-28 is 1 day before 2024-02-29, 672 days before
\* 2025-12-31 (2024 is a leap year) and 1826 days after 2019-02-28
DiasRestantesSinTope ==
    emp.tipo = "Temporal" =>
        /\ FechaMenor(hoy, emp.fecha_fin_contrato)
              <=> dias_restantes_contrato(emp) > 0
        /\ hoy = emp.fecha_fin_contrato <=> dias_restantes_contrato(emp) = 0
        /\ FechaMenor(emp.fecha_fin_contrato, hoy)
              <=> dias_restantes_contrato(emp) < 0
        /\ hoy = Fecha(2024, 2, 28) =>
              dias_restantes_contrato(emp) =
                  CASE emp.fecha_fin_contrato = Fecha(2024, 2, 29) -> 1
                    [] emp.fecha_fin_contrato = Fecha(2025, 12, 31) -> 672
                    [] emp.fecha_fin_contrato = Fecha(2019, 2, 28) -> -1826

\* C12: dias_restantes_contrato() is fecha_fin_contrato minus today in days,
\* not clamped: positive before the end date, 0 on it, negative after it,
\* one less with every day that passes; an employee constructed with an end
\* date already past reports a negative number.
C12_DiasRestantes == [][UnDiaMenos]_vars /\ []DiasRestantesSinTope

\* C12 witness: a temporary employee just constructed with an end date five
\* years in the past, whose days remaining are negative.
C12_Testigo ==
    /\ llamada.op = "EmpleadoTemporal" /\ ~Fallo
    /\ emp.tipo = "Temporal"
    /\ emp.fecha_fin_contrato = Fecha(2019, 2, 28)
    /\ dias_restantes_contrato(emp) < -1800

\* C13: the temporary constructor raises, and yields no object, if
\* salario_mensual <= 0 or fecha_fin_contrato <= fecha_ingreso (an end date
\* equal to the hire date included), and with valid common arguments only
\* then; every temporary employee has fecha_fin_contrato > fecha_ingreso.
C13_ValidacionTemporal ==
    /\ llamada.op = "EmpleadoTemporal" =>
          /\ ( \/ llamada.salario_mensual <= 0
               \/ ~FechaMenor(llamada.fecha_ingreso, llamada.fecha_fin_contrato) )
             => (Fallo /\ emp = SinEmpleado)
          /\ (BaseValida /\ Fallo) =>
                \/ llamada.salario_mensual <= 0
                \/ ~FechaMenor(llamada.fecha_ingreso, llamada.fecha_fin_contrato)
    /\ emp.tipo = "Temporal" =>
          /\ FechaMenor(emp.fecha_ingreso, emp.fecha_fin_contrato)
          /\ emp.salario_mensual > 0

\* C13 witness: an end date equal to the hire date is refused, the other
\* arguments being valid.
C13_Testigo ==
    /\ llamada.op = "EmpleadoTemporal" /\ BaseValida
    /\ llamada.salario_mensual > 0
    /\ llamada.fecha_fin_contrato = llamada.fecha_ingreso
    /\ Fallo /\ emp = SinEmpleado

\* today is the anniversary of the hire date
EsAniversario == hoy.month = emp.fecha_ingreso.month /\ hoy.day = emp.fecha_ingreso.day

\* the tenure grows by one on the day that is the anniversary, and on no
\* other day of a year that has one
CuentaEnElAniversario ==
    (Existe /\ emp' = emp /\ hoy' # hoy)
    => obtener_antiguedad_anios(emp)' =
          obtener_antiguedad_anios(emp) + (IF EsAniversario' THEN 1 ELSE 0)

AntiguedadPorFecha ==
    Existe =>
        /\ obtener_antiguedad_anios(emp) =
              (hoy.year - emp.fecha_ingreso.year)
                - (IF \/ hoy.month < emp.fecha_ingreso.month
                      \/ /\ hoy.month = emp.fecha_ingreso.month
                         /\ hoy.day < emp.fecha_ingreso.day
                   THEN 1 ELSE 0)
        /\ EsAniversario =>
              obtener_antiguedad_anios(emp) = hoy.year - emp.fecha_ingreso.year

\* C14: obtener_antiguedad_años() is the current year minus the hire year,
\* less one exactly when today's (month, day) is before the hire date's; the
\* year counts on the anniversary itself and not on the day before.
C14_Antiguedad == [][CuentaEnElAniversario]_vars /\ []AntiguedadPorFecha

\* C14 witness: the first anniversary, the tenure queried being 1.
C14_Testigo ==
    /\ Existe /\ EsAniversario
    /\ hoy.year = emp.fecha_ingreso.year + 1
    /\ llamada.op = "obtener_antiguedad_anios" /\ llamada.valor = 1

\* ---------------------------------------------------------------------
\* C15
\* the call that just returned is a repetition: the same operation returned
\* before, and no setter call came between the two
Repetida ==
    /\ llamada.op \in { "calcular_salario_neto", "obtener_detalle_nomina" }
    /\ llamada.anterior.op = llamada.op

\* C15 as stated: a repeated calcular_salario_neto() or
\* obtener_detalle_nomina() with no setter call in between returns what the
\* call before it returned
C15_Original == Repetida => llamada.valor = llamada.anterior.valor

\* both calls began and ended on the date that is still current
MismaFecha ==
    /\ llamada.anterior.fecha = hoy
    /\ llamada.anterior.fin = hoy
    /\ llamada.inicio = hoy

\* C15: a repeated calcular_salario_neto() or obtener_detalle_nomina() with
\* no setter call in between and with the current date the same from the
\* start of the first call to the end of the second returns what the call
\* before it returned, for every variant
C15_Idempotencia == Repetida /\ MismaFecha => llamada.valor = llamada.anterior.valor

\* a detail record was returned twice on 1 March by an employee whose
\* benefits changed on that day
C15_Testigo ==
    /\ Repetida /\ MismaFecha
    /\ llamada.op = "obtener_detalle_nomina"
    /\ emp.tipo = "Asalariado"
    /\ emp.fecha_ingreso = Fecha(2018, 3, 1)
    /\ hoy = Fecha(2024, 3, 1)
    /\ llamada.valor = llamada.anterior.valor
    /\ llamada.valor.bono_antiguedad > 0

\* ---------------------------------------------------------------------
\* C16
\* the fields no operation may change after construction
CamposFijos(e) == DOMAIN e \ { "horas_trabajadas", "ventas_mes" }

\* the step leaves every field of the employee in CamposFijos as it was
FijosIntactos ==
    /\ DOMAIN emp' = DOMAIN emp
    /\ \A campo \in CamposFijos(emp) : emp'[campo] = emp[campo]

\* a step that changes the employee is the return of the setter of the one
\* field it changes
SoloElSetter ==
    emp' # emp =>
        \/ /\ emp.tipo = "PorHoras"
           /\ llamada'.op = "horas_trabajadas"
           /\ llamada'.excepcion = NoError
           /\ emp' = [emp EXCEPT !.horas_trabajadas = llamada'.valor]
        \/ /\ emp.tipo = "PorComision"
           /\ llamada'.op = "ventas_mes"
           /\ llamada'.excepcion = NoError
           /\ emp' = [emp EXCEPT !.ventas_mes = llamada'.valor]

\* the operations that only read
Consultas ==
    { "calcular_salario_bruto", "calcular_beneficios", "calcular_deducciones",
      "calcular_salario_neto", "obtener_detalle_nomina",
      "obtener_antiguedad_anios", "contrato_vigente",
      "dias_restantes_contrato" }

\* the step is the return of a query, or a part of obtener_detalle_nomina()
PasoDeConsulta ==
    \/ llamada' # llamada /\ llamada'.op \in Consultas
    \/ en_curso' # en_curso

\* C16: after construction id, name, hire date, monthly salary, hourly rate,
\* fund acceptance, base salary, commission rate and contract end date never
\* change; the horas_trabajadas setter changes only horas_trabajadas, the
\* ventas_mes setter only ventas_mes, and no query changes any field
C16_Marco ==
    [][Existe => /\ FijosIntactos
                 /\ SoloElSetter
                 /\ (PasoDeConsulta => emp' = emp)]_vars

\* an hourly employee in the savings fund whose hours were assigned and whose
\* detail record was then produced
C16_Testigo ==
    /\ emp.tipo = "PorHoras"
    /\ emp.acepta_fondo_ahorro
    /\ emp.horas_trabajadas = 45
    /\ llamada.op = "obtener_detalle_nomina"
    /\ llamada.valor.horas_extras = 5
    /\ llamada.anterior.op = "ninguna"

\* ---------------------------------------------------------------------
\* C17
\* gross pay and benefits of a commission employee whose sales value is s
BrutoCon(s) == emp.salario_base + (s * emp.porcentaje_comision.num) \div emp.porcentaje_comision.den
BeneficiosCon(s) == 1000000 + (IF s > 20000000 THEN (3 * s) \div 100 ELSE 0)

\* gross pay and benefits are those of the sales value s
PagaSobre(s) ==
    /\ emp.ventas_mes = s
    /\ calcular_salario_bruto(emp) = BrutoCon(s)
    /\ calcular_beneficios(emp) = BeneficiosCon(s)

\* the sales value is that of construction or of the accepted setter call
\* that just returned, and what the queries return is computed on it
VentasVigentes ==
    emp.tipo = "PorComision" =>
        /\ PagaSobre(emp.ventas_mes)
        /\ llamada.op = "EmpleadoPorComision" => PagaSobre(llamada.ventas_mes)
        /\ llamada.op = "ventas_mes" /\ llamada.excepcion = NoError
              => PagaSobre(llamada.valor)
        /\ llamada.op = "calcular_salario_bruto"
              => llamada.valor = BrutoCon(emp.ventas_mes)
        /\ llamada.op = "calcular_beneficios"
              => llamada.valor = BeneficiosCon(emp.ventas_mes)

\* the step is the return of an accepted ventas_mes setter call
SetterAceptado ==
    /\ llamada'.op = "ventas_mes"
    /\ llamada'.excepcion = NoError
    /\ emp'.ventas_mes = llamada'.valor

\* only an accepted setter call changes the sales value: a rejected call and
\* every other step leave it, and gross pay with it, as they were
VentasSoloPorSetter ==
    emp.tipo = "PorComision" =>
        \/ SetterAceptado
        \/ /\ emp'.ventas_mes = emp.ventas_mes
           /\ calcular_salario_bruto(emp') = calcular_salario_bruto(emp)
           /\ calcular_bono_ventas(emp') = calcular_bono_ventas(emp)

\* C17: for a commission employee, after any sequence of ventas_mes setter
\* calls, gross pay is salario_base + porcentaje_comision * s and the sales
\* bonus is decided on s, the sales value of construction or of the last
\* accepted setter call; nothing computed before a mutation is retained
C17_VentasDelMes == [][VentasSoloPorSetter]_vars /\ []VentasVigentes

\* the setter has just stored exactly the threshold: the bonus is gone
C17_Testigo ==
    /\ emp.tipo = "PorComision"
    /\ llamada.op = "ventas_mes" /\ llamada.excepcion = NoError
    /\ llamada.valor = 20000000
    /\ emp.porcentaje_comision = Racional(1, 20)
    /\ calcular_salario_bruto(emp) = 3000000
    /\ calcular_beneficios(emp) = 1000000

\* ---------------------------------------------------------------------
\* C18
\* gross pay + benefits - 4% of gross pay, with no floor, times 25
NetoSinPisoPor25 == 25 * (calcular_salario_bruto(emp) + calcular_beneficios(emp)) - calcular_salario_bruto(emp)

\* net pay is the unclamped value, which is never negative
NetoExacto ==
    /\ NetoSinPisoPor25 >= 0
    /\ 25 * calcular_salario_neto(emp) = NetoSinPisoPor25
    /\ llamada.op = "calcular_salario_neto"
          => 25 * llamada.valor = NetoSinPisoPor25

\* net pay is 0 for an hourly employee with no hours and for nobody else
NetoCeroSoloSinHoras ==
    /\ calcular_salario_neto(emp) = 0
          <=> emp.tipo = "PorHoras" /\ emp.horas_trabajadas = 0
    /\ emp.tipo \in { "Asalariado", "PorComision", "Temporal" }
          => calcular_salario_neto(emp) > 0

\* scenario A of the specification: 5,000,000 + 1,500,000 - 200,000
EscenarioA ==
    /\ emp.tipo = "Asalariado"
    /\ emp.salario_mensual = 5000000
    /\ obtener_antiguedad_anios(emp) > 5
    => calcular_salario_neto(emp) = 6300000

\* C18: for every variant and every valid state, calcular_salario_neto() is
\* gross pay + benefits - 4% of gross pay exactly, the unclamped value never
\* being negative; it is 0 only for an hourly employee with
\* horas_trabajadas = 0 and strictly positive for every salaried, commission
\* and temporary employee
C18_NetoSinRecorte == Existe => NetoExacto /\ NetoCeroSoloSinHoras /\ EscenarioA

\* an hourly employee in the fund, past the first year, with no hours, was
\* asked for the net pay
C18_Testigo ==
    /\ emp.tipo = "PorHoras"
    /\ emp.horas_trabajadas = 0
    /\ CalificaFondo
    /\ llamada.op = "calcular_salario_neto"
    /\ llamada.valor = 0

\* ---------------------------------------------------------------------
\* C19
\* the sum of the benefit entries of the detail record d
BeneficiosDelRegistro(d) ==
    CASE d.tipo = "Asalariado" -> d.bono_alimentacion + d.bono_antiguedad
      [] d.tipo = "Por Horas" -> d.fondo_ahorro
      [] d.tipo = "Por Comision" -> d.bono_alimentacion + d.bono_ventas
      [] d.tipo = "Temporal" -> d.beneficios

\* the entries of the detail record d agree with one another
RegistroConsistente(d) ==
    /\ 25 * d.deducciones = d.salario_bruto
    /\ d.salario_neto = d.salario_bruto + BeneficiosDelRegistro(d) - d.deducciones
    /\ d.tipo = "Temporal" => (d.contrato_vigente <=> d.dias_restantes >= 0)

\* C19: every record returned by obtener_detalle_nomina() is internally
\* consistent: 'deducciones' is 4% of 'salario_bruto', 'salario_neto' is
\* 'salario_bruto' plus the benefit entries minus 'deducciones', and for a
\* temporary employee 'contrato_vigente' is true exactly when
\* 'dias_restantes' >= 0, also when the date advances during the call
C19_DetalleConsistente ==
    llamada.op = "obtener_detalle_nomina" => RegistroConsistente(llamada.valor)

\* the same, for the calls during which the date did not advance
C19_ConsistenteSinMedianoche ==
    llamada.op = "obtener_detalle_nomina" /\ llamada.inicio = hoy
        => RegistroConsistente(llamada.valor)

\* ---------------------------------------------------------------------
\* C20
\* the tenure is never negative
AntiguedadNoNegativa == Existe => obtener_antiguedad_anios(emp) >= 0

\* no step lowers the tenure
AntiguedadNoDecrece ==
    Existe => obtener_antiguedad_anios(emp)' >= obtener_antiguedad_anios(emp)

\* a salaried employee past the fifth year keeps a non-zero seniority bonus
BonoPermanente ==
    emp.tipo = "Asalariado" /\ obtener_antiguedad_anios(emp) > ANIOS_MINIMOS_BONO
        => /\ Asalariado_calcular_bono_antiguedad(emp) > 0
           /\ Asalariado_calcular_bono_antiguedad(emp)' > 0

\* an hourly employee in the fund past the first year stays eligible: the
\* fund benefit remains 2% of the gross pay, whatever the hours become
FondoPermanente ==
    emp.tipo = "PorHoras" /\ CalificaFondo
        => /\ CalificaFondo'
           /\ 50 * calcular_fondo_ahorro(emp)' = PorHoras_calcular_salario_bruto(emp)'

\* a contract that is no longer active does not become active again
ContratoNoRevive ==
    emp.tipo = "Temporal" /\ ~contrato_vigente(emp) => ~contrato_vigente(emp)'

\* eligibility is reached exactly when the tenure passes the threshold, by a
\* salaried employee and by an hourly employee who accepted the fund; an
\* hourly employee who declined it never has a fund benefit
ElegiblePorAntiguedad ==
    /\ emp.tipo = "Asalariado"
          => (Asalariado_calcular_bono_antiguedad(emp) > 0
                <=> obtener_antiguedad_anios(emp) > ANIOS_MINIMOS_BONO)
    /\ emp.tipo = "PorHoras" /\ emp.acepta_fondo_ahorro
          => (CalificaFondo <=> obtener_antiguedad_anios(emp) > ANIOS_MINIMOS_FONDO)
    /\ emp.tipo = "PorHoras" /\ ~emp.acepta_fondo_ahorro
          => ~CalificaFondo /\ calcular_fondo_ahorro(emp) = 0

\* the employees whose tenure passes the threshold of their variant inside
\* the window: the sixth anniversary of a salaried employee, the second of
\* an hourly employee, falls on 2024-03-01
CumpleEnLaVentana ==
    /\ emp.tipo \in { "Asalariado", "PorHoras" }
    /\ emp.fecha_ingreso =
          (IF emp.tipo = "Asalariado" THEN Fecha(2018, 3, 1) ELSE Fecha(2022, 3, 1))

\* the tenure benefit of the variant is open to the employee
Elegible ==
    \/ emp.tipo = "Asalariado" /\ Asalariado_calcular_bono_antiguedad(emp) > 0
    \/ emp.tipo = "PorHoras" /\ CalificaFondo

\* the tenure is never negative and never decreases, and what the tenure
\* brought is kept
Permanencia ==
    /\ [][AntiguedadNoDecrece /\ BonoPermanente /\ FondoPermanente /\ ContratoNoRevive]_vars
    /\ []AntiguedadNoNegativa

\* C20 as stated: the tenure is never negative and never decreases,
\* eligibility is permanent once reached, every employee eventually reaches
\* it, and a contract that became inactive never becomes active again
C20_Original == Permanencia /\ (CumpleEnLaVentana ~> Elegible)

\* C20: as the date advances after a valid construction the tenure is never
\* negative and never decreases; a salaried employee past the fifth year
\* keeps a non-zero seniority bonus, an hourly employee in the fund past the
\* first year stays eligible for it, and a contract that became inactive
\* stays inactive; a salaried employee and an hourly employee who accepted
\* the fund eventually reach eligibility, with the tenure, and an hourly
\* employee who declined the fund never does
C20_Permanencia ==
    /\ Permanencia
    /\ []ElegiblePorAntiguedad
    /\ (CumpleEnLaVentana /\ (emp.tipo = "PorHoras" => emp.acepta_fondo_ahorro))
          ~> Elegible

\* the date has advanced past the sixth anniversary of a salaried employee
\* constructed before it
C20_Testigo ==
    /\ emp.tipo = "Asalariado"
    /\ emp.fecha_ingreso = Fecha(2018, 3, 1)
    /\ hoy = Fecha(2024, 3, 2)
    /\ llamada.op = "obtener_detalle_nomina"
    /\ llamada.anterior.op = "obtener_detalle_nomina"
    /\ llamada.anterior.fin = Fecha(2024, 2, 29)
    /\ llamada.anterior.valor.bono_antiguedad = 0
    /\ llamada.inicio = hoy
    /\ llamada.valor.bono_antiguedad > 0


============================================================================
